---- MODULE Spec2Model ----
(***************************************************************************)
(* Model of gammy.py: a batch script that reads user actions from a JSON   *)
(* file, runs each against the GAM command-line tool and writes one CSV    *)
(* row per action.  The GAM tool is an opaque collaborator: each call may  *)
(* return a zero or non-zero code, or raise.                               *)
(***************************************************************************)
EXTENDS Integers, Sequences, FiniteSets, TLC

VARIABLES
    pc,          \* position of main: "open", "for", "body", "finally", "done", "crashed"
    f_in,        \* the name f_in of main: "unbound", "open", "closed"
    f_out,       \* the name f_out of main: "unbound", "open", "closed"
    report,      \* rows written to the output csv so far
    input,       \* <<action, username>> of the records the for statement has taken
    row,         \* the record the loop took last
    result,      \* main's variable result for that record
    calls,       \* GAM invocations made for that record, in order
    SUSPENDED,   \* the global set by findUser
    logCritical  \* message class of the logging.critical call, "" if none

vars == <<pc, f_in, f_out, report, input, row, result, calls, SUSPENDED, logCritical>>

-----------------------------------------------------------------------------
(* Bounds *)

MaxRecords == 2     \* records taken from reader["useractions"]
MaxLines == 2       \* lines of captured stdout of one "info user" call

-----------------------------------------------------------------------------
(* Strings *)

\* Python's  sub in s
Contains(sub, s) ==
    \E i \in 1..(Len(s) - Len(sub) + 1) : SubSeq(s, i, i + Len(sub) - 1) = sub

\* Python's  s.startswith(p)
StartsWith(s, p) ==
    Len(s) >= Len(p) /\ SubSeq(s, 1, Len(p)) = p

Last(s) == s[Len(s)]

-----------------------------------------------------------------------------
(* Settings and tables *)

STUPATTERN == "_"

deptDivision ==
    [ou \in {"Admissions", "Art", "Cinema", "Grounds And Roads", "Theatre",
             "Womens and Gender Studies"} |->
        CASE ou = "Admissions" -> "admin.university.edu"
          [] ou = "Grounds And Roads" -> "admin.universityn.edu"
          [] OTHER -> "academic.university.edu"]

\* lookupDivision falling back to the department code itself
lookupDivision_DefaultOu(ou) ==
    IF ou \in DOMAIN deptDivision THEN deptDivision[ou] ELSE ou

\* deptDivision.get(ou, '')
lookupDivision(ou) ==
    IF ou \in DOMAIN deptDivision THEN deptDivision[ou] ELSE ""

getUserType(username) ==
    IF Contains(STUPATTERN, username) THEN "STU" ELSE "EMP"

\* hashlib.sha1(userPassword).hexdigest(), tabulated for the passwords of the model
Sha1Hex(userPassword) ==
    CASE userPassword = "pw" -> "1a91d62f7ca67399625a4368a6ab5d4a3baa6073"
      [] userPassword = "" -> "da39a3ee5e6b4b0d3255bfef95601890afd80709"

-----------------------------------------------------------------------------
(* Input records.  main reads, for each action, only the keys it passes to   *)
(* the handler; the keys it does not read are held at Unread.                *)

Unread == "-"

Usernames == {"", "bob", "al_s"}
NewUsernames == {"", "bob", "rob"}
LoginDisabledValues == {"", "True", "true", "False"}
GivenNames == {"", "John"}
FullNames == {"", "John T"}
Surnames == {"", "Test"}
Departments == {"", "Art", "Biology"}
Passwords == {"", "pw"}
OtherActions == {"purge"}

CreateRecordsOf(U, G, S, D, P) ==
    [action : {"create"}, username : U, newusername : {Unread},
     loginDisabled : {Unread}, givenName : G, fullName : {Unread},
     sn : S, primO : D, userPassword : P]

UpdateRecordsOf(U, N, L, G, F, S, D) ==
    [action : {"update"}, username : U, newusername : N, loginDisabled : L,
     givenName : G, fullName : F, sn : S, primO : D, userPassword : {Unread}]

DeleteRecordsOf(U) ==
    [action : {"delete"}, username : U, newusername : {Unread},
     loginDisabled : {Unread}, givenName : {Unread}, fullName : {Unread},
     sn : {Unread}, primO : {Unread}, userPassword : {Unread}]

OtherRecordsOf(U) ==
    [action : OtherActions, username : U, newusername : {Unread},
     loginDisabled : {Unread}, givenName : {Unread}, fullName : {Unread},
     sn : {Unread}, primO : {Unread}, userPassword : {Unread}]

\* every record over the field values above: the inputs of one iteration
Records ==
    CreateRecordsOf(Usernames, GivenNames, Surnames, Departments, Passwords)
    \cup UpdateRecordsOf(Usernames, NewUsernames, LoginDisabledValues, GivenNames,
                         FullNames, Surnames, Departments)
    \cup DeleteRecordsOf(Usernames)
    \cup OtherRecordsOf(Usernames)

\* the records of a whole run: every action; creates of an employee, of a
\* student and with the username missing; a delete with the username missing
RunRecords ==
    CreateRecordsOf(Usernames, {"John"}, {"Test"}, {"Art"}, {"pw"})
    \cup UpdateRecordsOf({"bob"}, {"rob"}, {"True"}, {"John"},
                         {"John T"}, {"Test"}, {"Art"})
    \cup DeleteRecordsOf({"", "bob"})
    \cup OtherRecordsOf({"bob"})

NoRow ==
    [action |-> "", username |-> "", newusername |-> "", loginDisabled |-> "",
     givenName |-> "", fullName |-> "", sn |-> "", primO |-> "",
     userPassword |-> ""]

-----------------------------------------------------------------------------
(* The external tool *)

OutputLines ==
    {"Account Suspended: False", "Account Suspended: True", "Is Super Admin: True"}

\* captured stdout, already split at "\n"
Outputs == UNION {[1..n -> OutputLines] : n \in 0..MaxLines}

\* one run of ProcessGAMCommand: it returns rc, or raises
Returned(rc, out) == [raised |-> FALSE, rc |-> rc, out |-> out]
Raised == [raised |-> TRUE, rc |-> 0, out |-> <<>>]

\* what a failing "info user" call leaves on stdout: nothing, or text that
\* findUser must not read
FailOutputs == {<<>>, <<"Account Suspended: True">>}

ProbeOutcomes ==
    {Returned(0, out) : out \in Outputs}
    \cup {Returned(1, out) : out \in FailOutputs}
    \cup {Raised}
CommandOutcomes == {Returned(rc, <<>>) : rc \in {0, 1}} \cup {Raised}

\* GAM(command): what the handler sees of one invocation
Call(command, t) == [cmd |-> command, raised |-> t.raised, rc |-> t.rc, out |-> t.out]

InfoCommand(username) == <<"gam", "info", "user", username>>

\* the loop of findUser over GOUT.split("\n"), starting from flag
RECURSIVE ScanSuspended(_, _)
ScanSuspended(lines, flag) ==
    IF lines = <<>> THEN flag
    ELSE LET item == Head(lines)
             f1 == IF Contains("Suspended", item) /\ Contains("False", item)
                   THEN FALSE ELSE flag
             f2 == IF Contains("Suspended", item) /\ Contains("True", item)
                   THEN TRUE ELSE f1
         IN ScanSuspended(Tail(lines), f2)

\* findUser returning True whatever the probe returned
findUserFound_Always(t) == TRUE

\* findUser's return value for a probe that returned
findUserFound(t) == t.rc = 0

\* findUser without the reset: the scan starts from the flag left behind
findUserSuspended_NoReset(t) ==
    IF t.raised \/ t.rc # 0 THEN SUSPENDED ELSE ScanSuspended(t.out, SUSPENDED)

\* SUSPENDED after findUser: reset, then scanned only when the probe succeeds
findUserSuspended(t) ==
    IF t.raised \/ t.rc # 0 THEN FALSE ELSE ScanSuspended(t.out, FALSE)

-----------------------------------------------------------------------------
(* Handlers.  A handler's outcome: the string it returns, the GAM calls it   *)
(* made, SUSPENDED when it ends, and whether an exception left it.           *)

Return(res, cs, susp) == [result |-> res, calls |-> cs, susp |-> susp, raised |-> FALSE]
Escape(cs, susp) == [result |-> "", calls |-> cs, susp |-> susp, raised |-> TRUE]

MissingMsg(item) ==
    "ERROR: Missing an expected input value for " \o item \o " in input file."

\* Guarded without its except clause: the exception leaves the handler
Guarded_NoExcept(cs, command, t, susp, okMsg, failMsg, exceptMsg) ==
    LET cs2 == Append(cs, Call(command, t)) IN
    IF t.raised THEN Escape(cs2, susp)
    ELSE IF t.rc # 0 THEN Return(failMsg, cs2, susp)
    ELSE Return(okMsg, cs2, susp)

\* the outcome of a GAM call made inside try/except Exception, then if result:
Guarded(cs, command, t, susp, okMsg, failMsg, exceptMsg) ==
    LET cs2 == Append(cs, Call(command, t)) IN
    IF t.raised THEN Return(exceptMsg, cs2, susp)
    ELSE IF t.rc # 0 THEN Return(failMsg, cs2, susp)
    ELSE Return(okMsg, cs2, susp)

\* MissingParams with the password left out of the check
MissingParams_SkipPassword(params) ==
    {item \in DOMAIN params \ {"userPassword"} : params[item] = ""}

\* params = locals() at the top of a handler; the loop returns at the first
\* empty one it meets, in the iteration order of the dict, which the language
\* leaves open
MissingParams(params) == {item \in DOMAIN params : params[item] = ""}

\* the org placement appended to a command: students by pattern, else by table
OrgArgs(username, ou, studentPath) ==
    IF getUserType(username) = "STU"
    THEN <<"org", studentPath>>
    ELSE <<"org", "/" \o lookupDivision(ou)>>

UnsuspendCommand(username, ou) ==
    <<"gam", "update", "user", username, "suspended", "off">>
        \o OrgArgs(username, ou, "/students.denison.edu")

CreateCommand(username, givenName, sn, ou, userPassword) ==
    <<"gam", "create", "user", username, "firstname", givenName, "lastname", sn,
      "password", Sha1Hex(userPassword), "sha">>
        \o OrgArgs(username, ou, "/students.university.edu")

ImapCommand(username) == <<"gam", "user", username, "imap", "on">>

\* enableImap after the calls cs: it returns nothing; an exception of its
\* probe leaves it, one of its imap command is caught
enableImap(username, cs) ==
    UNION {
        LET c2 == Append(cs, Call(InfoCommand(username), p)) IN
        IF p.raised THEN {[calls |-> c2, susp |-> FALSE, raised |-> TRUE]}
        ELSE IF ~findUserFound(p)
        THEN {[calls |-> c2, susp |-> findUserSuspended(p), raised |-> FALSE]}
        ELSE {[calls |-> Append(c2, Call(ImapCommand(username), t)),
               susp |-> findUserSuspended(p), raised |-> FALSE] : t \in CommandOutcomes}
        : p \in ProbeOutcomes}

\* the branch of create for a user the probe found
createExisting(params, c1, suspended) ==
    IF suspended
    THEN {LET cs == Append(c1, Call(UnsuspendCommand(params.username, params.ou), t)) IN
          IF t.raised THEN Escape(cs, suspended)
          ELSE IF t.rc # 0
          THEN Return("ERROR: could not unsuspend GApps user.", cs, suspended)
          ELSE Return("SUCCES: User unsuspended in GApps.", cs, suspended)
          : t \in CommandOutcomes}
    ELSE {Return("ERROR: username already taken!", c1, suspended)}

\* the branch of create for a user the probe did not find
createNew(params, c1) ==
    UNION {
        LET cs == Append(c1, Call(CreateCommand(params.username, params.givenName,
                                  params.sn, params.ou, params.userPassword), t)) IN
        IF t.raised \/ t.rc # 0
        THEN {Return("ERROR: could not create GApps user.", cs, FALSE)}
        ELSE {IF e.raised THEN Escape(e.calls, e.susp)
              ELSE Return("SUCCESS: User added to GApps.", e.calls, e.susp)
              : e \in enableImap(params.username, cs)}
        : t \in CommandOutcomes}

create(params, susp) ==
    IF MissingParams(params) # {}
    THEN {Return(MissingMsg(item), <<>>, susp) : item \in MissingParams(params)}
    ELSE UNION {
        LET c1 == <<Call(InfoCommand(params.username), p)>> IN
        IF p.raised THEN {Escape(c1, FALSE)}
        ELSE IF findUserFound(p) THEN createExisting(params, c1, findUserSuspended(p))
        ELSE createNew(params, c1)
        : p \in ProbeOutcomes}

\* UpdateCommand reading loginDisabled without regard to case
UpdateCommand_AnyCase(username, newusername, loginDisabled, givenName, sn, ou) ==
    <<"gam", "update", "user", username>>
        \o (IF username # newusername
            THEN <<"firstname", givenName, "lastname", sn, "username", newusername>>
            ELSE <<>>)
        \o (IF loginDisabled \in {"True", "true", "TRUE"}
            THEN <<"suspended", "on">> ELSE <<>>)
        \o OrgArgs(username, ou, "/students.university.edu")

UpdateCommand(username, newusername, loginDisabled, givenName, sn, ou) ==
    <<"gam", "update", "user", username>>
        \o (IF username # newusername
            THEN <<"firstname", givenName, "lastname", sn, "username", newusername>>
            ELSE <<>>)
        \o (IF loginDisabled = "True" THEN <<"suspended", "on">> ELSE <<>>)
        \o OrgArgs(username, ou, "/students.university.edu")

update(params, susp) ==
    IF MissingParams(params) # {}
    THEN {Return(MissingMsg(item), <<>>, susp) : item \in MissingParams(params)}
    ELSE UNION {
        LET c1 == <<Call(InfoCommand(params.username), p)>> IN
        IF p.raised THEN {Escape(c1, FALSE)}
        ELSE IF ~findUserFound(p)
        THEN {Return("ERROR: user could not be found in GApps!", c1, findUserSuspended(p))}
        ELSE {Guarded(c1, UpdateCommand(params.username, params.newusername,
                                        params.loginDisabled, params.givenName,
                                        params.sn, params.ou),
                      t, findUserSuspended(p),
                      "SUCCESS: User updated in GApps.",
                      "ERROR: could not update GApps user.",
                      "ERROR: Could not update GApps user.") : t \in CommandOutcomes}
        : p \in ProbeOutcomes}

DeleteCommand(username) == <<"gam", "delete", "user", username>>

delete(username, susp) ==
    IF username = ""
    THEN {Return(MissingMsg("username"), <<>>, susp)}
    ELSE UNION {
        LET c1 == <<Call(InfoCommand(username), p)>> IN
        IF p.raised THEN {Escape(c1, FALSE)}
        ELSE IF ~findUserFound(p)
        THEN {Return("ERROR: user not found in GApps!", c1, findUserSuspended(p))}
        ELSE {Guarded(c1, DeleteCommand(username), t, findUserSuspended(p),
                      "SUCCESS: User deleted from GApps.",
                      "ERROR: could not delete GApps user.",
                      "ERROR: Could not delete GApps user.") : t \in CommandOutcomes}
        : p \in ProbeOutcomes}

\* the arguments main passes to create and to update, by parameter name
CreateParams(rec) ==
    [username |-> rec.username, givenName |-> rec.givenName, sn |-> rec.sn,
     ou |-> rec.primO, userPassword |-> rec.userPassword]

UpdateParams(rec) ==
    [username |-> rec.username, newusername |-> rec.newusername,
     loginDisabled |-> rec.loginDisabled, givenName |-> rec.givenName,
     fullName |-> rec.fullName, sn |-> rec.sn, ou |-> rec.primO]

-----------------------------------------------------------------------------
(* main *)

Header == <<"action", "username", "result">>

Init ==
    /\ pc = "open"
    /\ f_in = "unbound"
    /\ f_out = "unbound"
    /\ report = <<>>
    /\ input = <<>>
    /\ row = NoRow
    /\ result = ""
    /\ calls = <<>>
    /\ SUSPENDED = FALSE
    /\ logCritical = ""

\* open(in_file) raises IOError
OpenInputFails ==
    /\ pc = "open"
    /\ pc' = "finally"
    /\ logCritical' = "file not found"
    /\ UNCHANGED <<f_in, f_out, report, input, row, result, calls, SUSPENDED>>

\* open(out_file) raises IOError
OpenOutputFails ==
    /\ pc = "open"
    /\ f_in' = "open"
    /\ pc' = "finally"
    /\ logCritical' = "file not found"
    /\ UNCHANGED <<f_out, report, input, row, result, calls, SUSPENDED>>

\* json.load raises ValueError
LoadFails ==
    /\ pc = "open"
    /\ f_in' = "open"
    /\ f_out' = "open"
    /\ pc' = "finally"
    /\ logCritical' = "unknown error"
    /\ UNCHANGED <<report, input, row, result, calls, SUSPENDED>>

\* both files open, the input parses, the header row is written
OpenFiles ==
    /\ pc = "open"
    /\ f_in' = "open"
    /\ f_out' = "open"
    /\ report' = <<Header>>
    /\ pc' = "for"
    /\ UNCHANGED <<input, row, result, calls, SUSPENDED, logCritical>>

\* the for statement takes the next record; result = ''
ForNext ==
    /\ pc = "for"
    /\ Len(input) < MaxRecords
    /\ \E rec \in RunRecords :
        /\ row' = rec
        /\ input' = Append(input, <<rec.action, rec.username>>)
    /\ result' = ""
    /\ calls' = <<>>
    /\ pc' = "body"
    /\ UNCHANGED <<f_in, f_out, report, SUSPENDED, logCritical>>

\* the for statement finds the sequence exhausted
EndOfInput ==
    /\ pc = "for"
    /\ pc' = "finally"
    /\ UNCHANGED <<f_in, f_out, report, input, row, result, calls, SUSPENDED, logCritical>>

\* the rest of the loop body once the handler ended as o: the row is written,
\* or the exception reaches except Exception of main
Finish(o) ==
    /\ calls' = o.calls
    /\ SUSPENDED' = o.susp
    /\ IF o.raised
       THEN /\ logCritical' = "unknown error"
            /\ pc' = "finally"
            /\ UNCHANGED <<result, report>>
       ELSE /\ result' = o.result
            /\ report' = Append(report, <<row.action, row.username, o.result>>)
            /\ pc' = "for"
            /\ UNCHANGED logCritical
    /\ UNCHANGED <<f_in, f_out, input, row>>

DoCreate ==
    /\ pc = "body"
    /\ row.action = "create"
    /\ \E o \in create(CreateParams(row), SUSPENDED) : Finish(o)

DoUpdate ==
    /\ pc = "body"
    /\ row.action = "update"
    /\ \E o \in update(UpdateParams(row), SUSPENDED) : Finish(o)

DoDelete ==
    /\ pc = "body"
    /\ row.action = "delete"
    /\ \E o \in delete(row.username, SUSPENDED) : Finish(o)

\* the else branch leaving the loop after writing its row
DoUnrecognized_Break ==
    /\ pc = "body"
    /\ row.action \notin {"create", "update", "delete"}
    /\ result' = "ERROR: Unrecognized action."
    /\ report' = Append(report, <<row.action, row.username, "ERROR: Unrecognized action.">>)
    /\ calls' = <<>>
    /\ pc' = "finally"
    /\ UNCHANGED <<f_in, f_out, input, row, SUSPENDED, logCritical>>

\* the else branch of the dispatch: no handler is called
DoUnrecognized ==
    /\ pc = "body"
    /\ row.action \notin {"create", "update", "delete"}
    /\ Finish(Return("ERROR: Unrecognized action.", <<>>, SUSPENDED))

\* the finally block: f_in.close() then f_out.close(); closing an unbound
\* name raises UnboundLocalError, which leaves main
Cleanup ==
    /\ pc = "finally"
    /\ IF f_in = "unbound"
       THEN pc' = "crashed" /\ UNCHANGED <<f_in, f_out>>
       ELSE /\ f_in' = "closed"
            /\ IF f_out = "unbound"
               THEN pc' = "crashed" /\ UNCHANGED f_out
               ELSE f_out' = "closed" /\ pc' = "done"
    /\ UNCHANGED <<report, input, row, result, calls, SUSPENDED, logCritical>>

Next ==
    \/ OpenInputFails
    \/ OpenOutputFails
    \/ LoadFails
    \/ OpenFiles
    \/ ForNext
    \/ DoCreate
    \/ DoUpdate
    \/ DoDelete
    \/ DoUnrecognized
    \/ EndOfInput
    \/ Cleanup

Spec == Init /\ [][Next]_vars

-----------------------------------------------------------------------------
(* One iteration of the loop on any record, from any value the earlier      *)
(* records may have left in SUSPENDED.                                      *)

InitRecord ==
    /\ pc = "body"
    /\ f_in = "open"
    /\ f_out = "open"
    /\ report = <<Header>>
    /\ row \in Records
    /\ input = <<<<row.action, row.username>>>>
    /\ result = ""
    /\ calls = <<>>
    /\ SUSPENDED \in BOOLEAN
    /\ logCritical = ""

NextRecord ==
    \/ DoCreate
    \/ DoUpdate
    \/ DoDelete
    \/ DoUnrecognized

SpecRecord == InitRecord /\ [][NextRecord]_vars

-----------------------------------------------------------------------------
(* Properties *)

\* the record taken last has been through the dispatch
Dispatched == input # <<>> /\ pc # "body"

\* ... and its row is in the report
RowWritten == Dispatched /\ Len(report) = Len(input) + 1

\* the fields the handler of rec requires, by the name the handler reports
RequiredFields(rec) ==
    CASE rec.action = "create" ->
            [username |-> rec.username, givenName |-> rec.givenName, sn |-> rec.sn,
             ou |-> rec.primO, userPassword |-> rec.userPassword]
      [] rec.action = "update" ->
            [username |-> rec.username, newusername |-> rec.newusername,
             loginDisabled |-> rec.loginDisabled, givenName |-> rec.givenName,
             fullName |-> rec.fullName, sn |-> rec.sn, ou |-> rec.primO]
      [] rec.action = "delete" -> [username |-> rec.username]
      [] OTHER -> [username |-> Unread]

EmptyFields(rec) == {f \in DOMAIN RequiredFields(rec) : RequiredFields(rec)[f] = ""}

Handled(action) == Dispatched /\ row.action = action
ValidRecord(action) == Handled(action) /\ EmptyFields(row) = {}

IsProbe(c) == c.cmd = <<"gam", "info", "user", row.username>>
ProbeAbsent(c) == IsProbe(c) /\ ~c.raised /\ c.rc # 0
ProbeFound(c) == IsProbe(c) /\ ~c.raised /\ c.rc = 0
NoRaise == \A i \in 1..Len(calls) : ~calls[i].raised

\* C1: for every record and every outcome the tool reports (found or not,
\* suspended or not, command succeeded or failed), the result written to the
\* report begins with "SUCCESS:" or with "ERROR:".
C1_ResultPrefixed ==
    (RowWritten /\ NoRaise) =>
        \/ StartsWith(Last(report)[3], "SUCCESS:")
        \/ StartsWith(Last(report)[3], "ERROR:")

\* the last call is one whose exception no handler catches: a probe, or the
\* unsuspend command of create
IsUnsuspend(c) ==
    /\ Len(c.cmd) = 8
    /\ SubSeq(c.cmd, 1, 6) = <<"gam", "update", "user", row.username, "suspended", "off">>
    /\ c.cmd[7] = "org"

EscapedCall ==
    /\ calls # <<>>
    /\ Last(calls).raised
    /\ IsProbe(Last(calls)) \/ IsUnsuspend(Last(calls))

RunEnded == pc \in {"done", "crashed"}

RowsMatch(k) ==
    \A i \in 1..k : report[i + 1][1] = input[i][1] /\ report[i + 1][2] = input[i][2]

\* C2 as stated: when the run ends the report holds the header and exactly one
\* row per record taken, in input order, whatever the tool did on each record
\* (success, failure, or raising).
C2_OneRowPerRecord ==
    (RunEnded /\ report # <<>>) =>
        /\ report[1] = Header
        /\ Len(report) = Len(input) + 1
        /\ RowsMatch(Len(input))

\* C2 amended: the report holds the header and one row per record for a prefix
\* of the input, in input order; the prefix is the whole input taken except when
\* an exception raised by the tool in a probe or in the unsuspend command left
\* the handler: then the run is logged critical and ends with no row for that
\* record.  A failure the tool reports, and an exception of a create, update,
\* delete or imap command, leave the row in place and the loop running.
C2_RowsArePrefix ==
    (report # <<>> /\ pc # "body") =>
        /\ report[1] = Header
        /\ Len(report) = (IF EscapedCall THEN Len(input) ELSE Len(input) + 1)
        /\ RowsMatch(Len(report) - 1)
        /\ (logCritical = "unknown error") <=> EscapedCall
        /\ EscapedCall => pc \in {"finally", "done"}

\* a finished run of two records: the tool failed on the first, the second
\* still has its row
C2_Witness ==
    /\ pc = "done"
    /\ Len(input) = 2
    /\ Len(report) = 3
    /\ report[2] = <<"delete", "bob", "ERROR: could not delete GApps user.">>
    /\ report[3][1] = "create"
    /\ logCritical = ""

\* C3: a create, update or delete record with an empty required field issues
\* no tool command, not even the probe, and its result is the missing-value
\* message naming a required field that is empty (userPassword when only the
\* password is empty).
C3_MissingFieldNoCommand ==
    (Dispatched /\ row.action \in {"create", "update", "delete"} /\ EmptyFields(row) # {}) =>
        /\ calls = <<>>
        /\ RowWritten
        /\ Last(report) = <<row.action, row.username, result>>
        /\ \E f \in EmptyFields(row) :
              result = "ERROR: Missing an expected input value for " \o f \o " in input file."
        /\ EmptyFields(row) = {"userPassword"} =>
              result = "ERROR: Missing an expected input value for userPassword in input file."

\* a create record whose only empty field is the password, handled
C3_Witness ==
    /\ Handled("create")
    /\ EmptyFields(row) = {"userPassword"}
    /\ calls = <<>>
    /\ RowWritten

\* C4: a valid create whose probe finds an unsuspended user returns "username
\* already taken", a valid update or delete whose probe finds no user returns
\* its not-found error, and in all three the probe is the only command issued.
C4_ConflictNoMutation ==
    /\ (ValidRecord("create") /\ calls # <<>> /\ ProbeFound(calls[1]) /\ ~SUSPENDED) =>
          /\ result = "ERROR: username already taken!"
          /\ Len(calls) = 1
          /\ Last(report) = <<"create", row.username, result>>
    /\ (ValidRecord("update") /\ calls # <<>> /\ ProbeAbsent(calls[1])) =>
          /\ result = "ERROR: user could not be found in GApps!"
          /\ Len(calls) = 1
          /\ Last(report) = <<"update", row.username, result>>
    /\ (ValidRecord("delete") /\ calls # <<>> /\ ProbeAbsent(calls[1])) =>
          /\ result = "ERROR: user not found in GApps!"
          /\ Len(calls) = 1
          /\ Last(report) = <<"delete", row.username, result>>
    /\ (Dispatched /\ row.action \in {"create", "update", "delete"} /\ EmptyFields(row) = {}) =>
          (calls # <<>> /\ IsProbe(calls[1]))

\* an update of a user the probe does not find, reported
C4_Witness ==
    /\ ValidRecord("update")
    /\ Len(calls) = 1
    /\ ProbeAbsent(calls[1])
    /\ calls[1].out # <<>>
    /\ RowWritten

\* the org placement a create or update command must carry for the record
ExpectedOrg ==
    IF \E i \in 1..Len(row.username) : SubSeq(row.username, i, i) = "_"
    THEN "/students.university.edu"
    ELSE CASE row.primO = "Art" -> "/academic.university.edu"
           [] row.primO = "Biology" -> "/"

\* C5: a valid create whose probe finds a suspended user issues exactly one
\* further command, the unsuspend, and no create; the result is a success
\* result if the tool reports no failure and an error result naming the
\* unsuspend failure otherwise.
C5_UnsuspendOutcome ==
    (ValidRecord("create") /\ calls # <<>> /\ ProbeFound(calls[1]) /\ SUSPENDED) =>
        /\ Len(calls) = 2
        /\ IsUnsuspend(calls[2])
        /\ (~calls[2].raised /\ calls[2].rc = 0) =>
              (RowWritten /\ StartsWith(result, "SUCCESS:"))
        /\ (~calls[2].raised /\ calls[2].rc # 0) =>
              (RowWritten /\ StartsWith(result, "ERROR:") /\ Contains("unsuspend", result))

C7_UpdateCommandShape ==
    (ValidRecord("update") /\ calls # <<>> /\ ProbeFound(calls[1])) =>
        /\ Len(calls) = 2
        /\ calls[2].cmd =
              <<"gam", "update", "user", row.username>>
              \o (IF row.username = row.newusername THEN <<>>
                  ELSE <<"firstname", row.givenName, "lastname", row.sn,
                         "username", row.newusername>>)
              \o (IF row.loginDisabled = "True" THEN <<"suspended", "on">> ELSE <<>>)
              \o <<"org", ExpectedOrg>>

\* an update with loginDisabled "true" and no rename: neither optional part
C7_Witness ==
    /\ ValidRecord("update")
    /\ row.loginDisabled = "true"
    /\ row.username = row.newusername
    /\ Len(calls) = 2
    /\ ProbeFound(calls[1])
    /\ Len(calls[2].cmd) = 6

\* C8: a record whose action is not create, update or delete gets the result
\* "ERROR: Unrecognized action.", issues no tool command, has its row written,
\* and the loop goes on to the next record.
C8_UnrecognizedAction ==
    [][(pc = "body" /\ row.action \notin {"create", "update", "delete"}) =>
            /\ result' = "ERROR: Unrecognized action."
            /\ calls' = <<>>
            /\ report' = Append(report, <<row.action, row.username, result'>>)
            /\ pc' = "for"
            /\ logCritical' = logCritical]_vars

\* an unrecognized record first, and a second record processed after it
C8_Witness ==
    /\ Len(input) = 2
    /\ input[1][1] = "purge"
    /\ Len(report) = 3
    /\ report[2] = <<"purge", input[1][2], "ERROR: Unrecognized action.">>
    /\ report[3][1] = "delete"

\* C9: on the create path where the user did not exist and the create command
\* succeeded, the calls are probe, create, probe, then the imap command only
\* if the second probe finds the user; whatever the IMAP step does, create
\* returns "SUCCESS: User added to GApps." and nothing propagates to main.
C9_ImapBestEffort ==
    (ValidRecord("create") /\ Len(calls) >= 2 /\ ProbeAbsent(calls[1])
        /\ ~calls[2].raised /\ calls[2].rc = 0) =>
        /\ calls[2].cmd[2] = "create"
        /\ Len(calls) \in {3, 4}
        /\ IsProbe(calls[3])
        /\ Len(calls) = 4 <=> ProbeFound(calls[3])
        /\ Len(calls) = 4 => calls[4].cmd = <<"gam", "user", row.username, "imap", "on">>
        /\ result = "SUCCESS: User added to GApps."
        /\ RowWritten
        /\ logCritical = ""

\* C10: once the run has reached the opening of the files, the cleanup block
\* completes and leaves both files closed, also when opening one of them fails.
C10_CleanupCompletes ==
    (pc \in {"done", "crashed"}) =>
        /\ pc = "done"
        /\ f_in # "open"
        /\ f_out # "open"

\* the positions of the probes among the calls of the last record
ProbeIndexes == {i \in 1..Len(calls) : IsProbe(calls[i])}

\* the lines of out that carry a suspension marker
MarkerIndexes(out) ==
    {i \in 1..Len(out) :
        \E k \in 1..Len(out[i]) - 8 : SubSeq(out[i], k, k + 8) = "Suspended"}

HasTrue(line) == \E k \in 1..Len(line) - 3 : SubSeq(line, k, k + 3) = "True"

\* the flag a probe must leave: false if it failed or raised, else the
\* boolean of the last marker line of its own output, false without one
FlagOf(c) ==
    IF c.raised \/ c.rc # 0 \/ MarkerIndexes(c.out) = {} THEN FALSE
    ELSE LET last == CHOOSE i \in MarkerIndexes(c.out) :
                        \A j \in MarkerIndexes(c.out) : j <= i
         IN HasTrue(c.out[last])

\* C11: the flag never carries over between probes.  After the calls of a
\* record, SUSPENDED is the flag of that record's last probe alone: false if
\* the probe failed or raised, else the boolean of the last Suspended line of
\* its own output; a failed probe reports the user absent; and a valid create
\* whose probe finds the user unsuspends exactly when that probe's own output
\* says suspended, whatever an earlier record left in the flag.
C11_FlagFromOwnProbe ==
    (Dispatched /\ ProbeIndexes # {}) =>
        LET lastProbe == calls[CHOOSE i \in ProbeIndexes : \A j \in ProbeIndexes : j <= i]
        IN /\ SUSPENDED = FlagOf(lastProbe)
           /\ ProbeAbsent(calls[1]) =>
                 \/ Len(calls) = 1 /\ row.action \in {"update", "delete"}
                       /\ RowWritten /\ Contains("not", result) /\ Contains("found", result)
                 \/ Len(calls) >= 2 /\ row.action = "create"
                       /\ calls[2].cmd[2] = "create"
           /\ (Len(calls) >= 3 /\ ProbeAbsent(calls[3])) => Len(calls) = 3
           /\ (row.action = "create" /\ ProbeFound(calls[1])) =>
                 IF FlagOf(calls[1])
                 THEN Len(calls) = 2 /\ IsUnsuspend(calls[2])
                 ELSE Len(calls) = 1 /\ result = "ERROR: username already taken!"

\* a first record whose probe found a suspended user, then a create whose own
\* probe finds the user with no suspension line: not unsuspended, flag false
C11_Witness ==
    /\ pc = "for"
    /\ Len(input) = 2
    /\ report[2][3] = "SUCCES: User unsuspended in GApps."
    /\ row.action = "create"
    /\ Len(calls) = 1
    /\ ProbeFound(calls[1])
    /\ calls[1].out = <<"Is Super Admin: True">>
    /\ result = "ERROR: username already taken!"
    /\ ~SUSPENDED

====
